---- MODULE Spec2Model ----
(***************************************************************************)
(* Verification model of the numerical helpers of ylp_wip:                 *)
(*   misc.py       vec, unvec, arnoldi, lanczos, krylov_expm               *)
(*   integrate.py  integrate, pre_integrate                                *)
(* Three specifications share the module: SpecUnvec (vec / unvec),         *)
(* SpecPre (pre_integrate) and SpecKrylov (krylov_expm, arnoldi, lanczos). *)
(***************************************************************************)
EXTENDS Integers, Sequences, FiniteSets, TLC

VARIABLES
  uIn,        \* vec/unvec: the caller's input (a matrix, or a bare vector)
  uVec,       \* the vector handed to unvec
  uC,         \* unvec's argument c (CNone when not given)
  uRet,       \* what unvec returned or raised
  uPrinted,   \* the diagnostic unvec printed ("" when none)
  uPc,        \* "start" | "vectorised" | "done"
  pMethod,    \* pre_integrate: the method argument
  pTlist,     \* the time grid
  pTimeType,  \* "int" | "float": the Python type of the grid's points
  pHlen,      \* len(H_coeff)
  pI,         \* the loop index i
  pIntegrals, \* the list integrals
  pEvals,     \* how many coefficient-function integrations were started
  pReads,     \* the set of indexes at which tlist was subscripted
  pPrinted,   \* the diagnostic printed ("" when none)
  pRet,       \* what pre_integrate returned or raised
  pPc,        \* "start" | "loop" | "done"
  kEntry,     \* Krylov engine: the function the caller calls
  kA,         \* the matrix A, a sequence of rows
  kB,         \* the vector b
  kPc,        \* "call" | "arnoldi" | "lanczos" | "built" | "done"
  kJ,         \* the builder's loop variable j
  kV,         \* the basis V, a sequence of columns
  kH,         \* arnoldi's H, indexed by <<row, column>> (0-based)
  kAlpha,     \* lanczos' alpha
  kBeta,      \* lanczos' beta
  kW,         \* lanczos' W, a sequence of columns
  kStatus,    \* how the builder ended: "" | "full" | "breakdown"
  kWrites,    \* the assignments to entries of V and H made so far
  kDivZero,   \* the lanczos steps j that divided by a zero beta
  kCalls,     \* how often krylov_expm called each builder
  kRet        \* what the entry point returned

uvars == <<uIn, uVec, uC, uRet, uPrinted, uPc>>
pvars == <<pMethod, pTlist, pTimeType, pHlen, pI, pIntegrals, pEvals, pReads,
           pPrinted, pRet, pPc>>
kvars == <<kEntry, kA, kB, kPc, kJ, kV, kH, kAlpha, kBeta, kW, kStatus, kWrites,
           kDivZero, kCalls, kRet>>
vars == <<uvars, pvars, kvars>>

None == "None"

-----------------------------------------------------------------------------
(* Bounds *)
MaxSide == 4      \* matrices handed to vec have 1..MaxSide rows and columns
MaxLen == 9       \* bare vectors handed to unvec have 0..MaxLen elements
MaxC == 5         \* the column argument c is drawn from 0..MaxC

-----------------------------------------------------------------------------
(* misc.py: vec and unvec *)

\* An r x k matrix: entry e[<<i, j>>] at row i, column j (0-based).
Cells(r, k) == (0..(r-1)) \X (0..(k-1))

Matrix(r, k, e) == [r |-> r, k |-> k, e |-> e]

\* The input matrices: every shape, entries pairwise distinct so that any
\* misplaced entry shows.
LabelledMatrix(r, k) ==
  Matrix(r, k, [ij \in Cells(r, k) |-> 10 * (ij[1] + 1) + (ij[2] + 1)])

LabelledVector(n) == [p \in 1..n |-> 100 + p]

\* np.asarray(mat).flatten('F'): column 0 top to bottom, then column 1, ...
vec(mat) ==
  [p \in 1..(mat.r * mat.k) |-> mat.e[<<(p - 1) % mat.r, (p - 1) \div mat.r>>]]

\* sqrt(n).is_integer()
IsPerfectSquare(n) == \E s \in 0..n : s * s = n

\* int(sqrt(n)) for a perfect square n
IntSqrt(n) == CHOOSE s \in 0..n : s * s = n

\* (n / c).is_integer() for c > 0 (Python true division)
DividesEvenly(n, c) == n % c = 0

\* int(n / c) where c > 0 divides n
IntQuot(n, c) == n \div c

\* vec.reshape((c, n), order = 'F'): c rows and n columns, filled column by
\* column: entry (i, j) is element j*c + i of the vector (0-based).
reshapeF(v, c, n) ==
  [kind |-> "matrix",
   mat |-> Matrix(c, n, [ij \in Cells(c, n) |-> v[ij[2] * c + ij[1] + 1]])]

ErrOdd == "Error: odd number of elements in vector. Cannot form matrix."
ErrSquare == "Error: vector cannot form a square matrix. Please provide a column length, c."
ErrC == "Error: value of c is invalid. Cannot split vector evenly into columns of length c"

ReturnNone(msg) == [ret |-> [kind |-> None], printed |-> msg]
Returns(r) == [ret |-> r, printed |-> ""]
Raises(e) == [ret |-> [kind |-> "raise", exc |-> e], printed |-> ""]

\* Lines 58-60: n = int(len(vec) / c); return vec.reshape((c, n), order = 'F')
unvecTail(v, c) ==
  IF c = 0
    THEN Raises("ZeroDivisionError")
    ELSE Returns(reshapeF(v, c, IntQuot(Len(v), c)))

\* unvec(vec, c): the result and the diagnostic printed. c is a record: given
\* is FALSE for the default None, val is the integer (here >= 0) otherwise.
unvec(v, c) ==
  IF Len(v) % 2 # 0
    THEN IF Len(v) = 1
           THEN Returns([kind |-> "vector", data |-> v])
           ELSE ReturnNone(ErrOdd)
    ELSE IF ~c.given
      THEN IF IsPerfectSquare(Len(v))
             THEN unvecTail(v, IntSqrt(Len(v)))
             ELSE ReturnNone(ErrSquare)
      ELSE IF c.val = 0
        THEN Raises("ZeroDivisionError")
        ELSE IF ~DividesEvenly(Len(v), c.val)
          THEN ReturnNone(ErrC)
          ELSE unvecTail(v, c.val)

\* The argument c: not given (the default None), or an integer.
CNone == [given |-> FALSE, val |-> 0]
CArgs == {CNone} \cup {[given |-> TRUE, val |-> n] : n \in 0..MaxC}

UInputs ==
  {[kind |-> "matrix", mat |-> LabelledMatrix(r, k)] : r \in 1..MaxSide, k \in 1..MaxSide}
    \cup {[kind |-> "vector", data |-> LabelledVector(n)] : n \in 0..MaxLen}

NoRet == [kind |-> "pending"]

InitU ==
  /\ uIn \in UInputs
  /\ uC \in CArgs
  /\ uVec = IF uIn.kind = "vector" THEN uIn.data ELSE <<>>
  /\ uPc = IF uIn.kind = "vector" THEN "vectorised" ELSE "start"
  /\ uRet = NoRet
  /\ uPrinted = ""

\* The caller vectorises its matrix.
CallVec ==
  /\ uPc = "start"
  /\ uVec' = vec(uIn.mat)
  /\ uPc' = "vectorised"
  /\ UNCHANGED <<uIn, uC, uRet, uPrinted>>
  /\ UNCHANGED <<pvars, kvars>>

\* The caller hands the vector to unvec.
CallUnvec ==
  /\ uPc = "vectorised"
  /\ LET out == unvec(uVec, uC)
     IN /\ uRet' = out.ret
        /\ uPrinted' = out.printed
  /\ uPc' = "done"
  /\ UNCHANGED <<uIn, uVec, uC>>
  /\ UNCHANGED <<pvars, kvars>>

UIdle ==
  /\ uIn = [kind |-> "idle"] /\ uVec = <<>> /\ uC = CNone /\ uRet = NoRet
  /\ uPrinted = "" /\ uPc = "idle"

PIdle ==
  /\ pMethod = "" /\ pTlist = <<>> /\ pTimeType = "int" /\ pHlen = 0 /\ pI = 0
  /\ pIntegrals = <<>> /\ pEvals = 0 /\ pReads = {} /\ pPrinted = ""
  /\ pRet = NoRet /\ pPc = "idle"

KIdle ==
  /\ kEntry = "idle" /\ kA = <<>> /\ kB = <<>> /\ kPc = "idle" /\ kJ = 0
  /\ kV = <<>> /\ kH = <<>> /\ kAlpha = <<>> /\ kBeta = <<>> /\ kW = <<>>
  /\ kStatus = "" /\ kWrites = {} /\ kDivZero = {} /\ kRet = NoRet
  /\ kCalls = [arnoldi |-> 0, lanczos |-> 0]

NextU == CallVec \/ CallUnvec

InitUnvec == InitU /\ PIdle /\ KIdle

SpecUnvec == InitUnvec /\ [][NextU]_vars

-----------------------------------------------------------------------------
(* integrate.py: integrate and pre_integrate *)

MaxTime == 4      \* grid points are drawn from 0..MaxTime
MaxH == 4         \* H_coeff has 0..MaxH triples

\* The i-th triple of H_coeff (0-based): two coefficient functions, here the
\* constant functions t |-> f and t |-> g, and a constant c.
HCoeff(i) == [f |-> i + 1, g |-> 2 * i + 1, c |-> 3]

\* integrate(f, a, b): h * sum(w[i] * f(h*x[i] + c)) with h = (b - a) / 2. The
\* Gauss-Legendre weights sum to 2, so a constant integrand fc gives fc * (b - a).
integrate(fc, a, b) == fc * (b - a)

\* sp.integrate.quad(f, a, b): the pair (integral, error estimate).
quad(fc, a, b) == [integral |-> fc * (b - a), abserr |-> "estimate"]

\* The strictly increasing grids over 0..MaxTime, the empty grid included.
RECURSIVE SortedSeq(_)
SortedSeq(S) ==
  IF S = {} THEN <<>>
  ELSE LET m == CHOOSE x \in S : \A y \in S : x <= y
       IN <<m>> \o SortedSeq(S \ {m})

Grids == {SortedSeq(S) : S \in SUBSET (0..MaxTime)}

Methods == {"scipy", "me", "bogus", ""}

\* A plausible slip: the second branch written as a plain else.
IsKnownMethod_ElseBranch(m) == TRUE

\* Lines 18 and 25: the two methods that have a branch.
IsKnownMethod(m) == m = "scipy" \/ m = "me"

ErrMethod == "Error: invalid method."

InitP ==
  /\ pMethod \in Methods
  /\ pTlist \in Grids
  /\ pTimeType \in {"int", "float"}
  /\ pHlen \in 0..MaxH
  /\ pI = 0
  /\ pIntegrals = <<>>
  /\ pEvals = 0
  /\ pReads = {}
  /\ pPrinted = ""
  /\ pRet = NoRet
  /\ pPc = "start"

\* Lines 17, 18, 25, 32-34: integrals = [], then the branch on method.
PreDispatch ==
  /\ pPc = "start"
  /\ IF IsKnownMethod(pMethod)
       THEN /\ pPc' = "loop"
            /\ UNCHANGED <<pPrinted, pRet>>
       ELSE /\ pPrinted' = ErrMethod
            /\ pRet' = [kind |-> "int", val |-> 0]
            /\ pPc' = "done"
  /\ UNCHANGED <<pMethod, pTlist, pTimeType, pHlen, pI, pIntegrals, pEvals, pReads>>
  /\ UNCHANGED <<uvars, kvars>>

\* One pass of the body of `for i in range(len(tlist))` (lines 20-24, 27-31),
\* subscript by subscript in Python's evaluation order. The result says
\* whether the pass ended in an exception, the tlist indexes subscripted, the
\* integrations started and the entry appended.
LoopBody(method, tlist, timeType, hlen, i) ==
  LET n == Len(tlist)
      intg(fc) == IF method = "scipy" THEN quad(fc, tlist[i + 1], tlist[i + 2])
                                      ELSE integrate(fc, tlist[i + 1], tlist[i + 2])
  IN IF i >= hlen                       \* H_coeff[i]
       THEN [exc |-> "IndexError", reads |-> {}, evals |-> 0]
     ELSE IF i + 1 >= n                 \* tlist[i], then tlist[i+1]
       THEN [exc |-> "IndexError", reads |-> {i, i + 1}, evals |-> 0]
     ELSE IF 2 >= hlen                  \* H_coeff[2]
       THEN [exc |-> "IndexError", reads |-> {i, i + 1}, evals |-> 2]
     ELSE IF timeType = "float"         \* a triple times a float
       THEN [exc |-> "TypeError", reads |-> {i, i + 1}, evals |-> 2]
     ELSE [exc |-> "",
           reads |-> {i, i + 1},
           evals |-> 2,
           val |-> [val0 |-> intg(HCoeff(i).f),
                    val1 |-> intg(HCoeff(i).g),
                    \* a triple times an int: the triple repeated
                    val2 |-> [triple |-> HCoeff(2),
                              times |-> tlist[i + 2] - tlist[i + 1]]]]

PreIter ==
  /\ pPc = "loop"
  /\ pI < Len(pTlist)
  /\ LET out == LoopBody(pMethod, pTlist, pTimeType, pHlen, pI)
     IN /\ pReads' = pReads \cup out.reads
        /\ pEvals' = pEvals + out.evals
        /\ IF out.exc # ""
             THEN /\ pRet' = [kind |-> "raise", exc |-> out.exc]
                  /\ pPc' = "done"
                  /\ UNCHANGED <<pI, pIntegrals>>
             ELSE /\ pIntegrals' = Append(pIntegrals, out.val)
                  /\ pI' = pI + 1
                  /\ UNCHANGED <<pRet, pPc>>
  /\ UNCHANGED <<pMethod, pTlist, pTimeType, pHlen, pPrinted>>
  /\ UNCHANGED <<uvars, kvars>>

\* Line 36: return integrals
PreReturn ==
  /\ pPc = "loop"
  /\ pI = Len(pTlist)
  /\ pRet' = [kind |-> "list", val |-> pIntegrals]
  /\ pPc' = "done"
  /\ UNCHANGED <<pMethod, pTlist, pTimeType, pHlen, pI, pIntegrals, pEvals, pReads,
                 pPrinted>>
  /\ UNCHANGED <<uvars, kvars>>

NextP == PreDispatch \/ PreIter \/ PreReturn

InitPre == InitP /\ UIdle /\ KIdle

SpecPre == InitPre /\ [][NextP]_vars

-----------------------------------------------------------------------------
(* misc.py: exact arithmetic for arnoldi and lanczos *)

(***************************************************************************)
(* Matrix and vector entries are Gaussian integers <<re, im>>.  The values *)
(* the builders compute from them are kept exactly:                        *)
(*   - a basis column V[:, c] is [nan, u]: the unit vector u / ||u|| for   *)
(*     an integer vector u # 0, the zero column for u = 0, or NaN;         *)
(*   - a scalar is [nan, z, p, q, d]: the number z * sqrt(p / q) / d with  *)
(*     z a Gaussian integer and p >= 0, q > 0, d > 0 integers, or NaN.     *)
(* Rounding is not modelled: the arithmetic is that of the reals.          *)
(***************************************************************************)

CZero == <<0, 0>>
COne == <<1, 0>>
CAdd(a, b) == <<a[1] + b[1], a[2] + b[2]>>
CSub(a, b) == <<a[1] - b[1], a[2] - b[2]>>
CMul(a, b) == <<a[1] * b[1] - a[2] * b[2], a[1] * b[2] + a[2] * b[1]>>
CConj(a) == <<a[1], -a[2]>>
CScale(n, a) == <<n * a[1], n * a[2]>>

Abs(n) == IF n < 0 THEN -n ELSE n

RECURSIVE Gcd(_, _)
Gcd(a, b) == IF b = 0 THEN a ELSE Gcd(b, a % b)

\* The sum of a sequence of Gaussian integers.
RECURSIVE CSum(_)
CSum(t) == IF t = <<>> THEN CZero ELSE CAdd(t[1], CSum(Tail(t)))

ZeroVec(m) == [k \in 1..m |-> CZero]
IsZeroVec(x) == \A k \in 1..Len(x) : x[k] = CZero

\* np.dot(u.conj(), x): sum of conj(u[k]) * x[k]
DotConj(u, x) == CSum([k \in 1..Len(u) |-> CMul(CConj(u[k]), x[k])])

\* ||x||^2
NormSq(x) == DotConj(x, x)[1]

\* A @ x
MatVec(A, x) ==
  [r \in 1..Len(A) |-> CSum([k \in 1..Len(x) |-> CMul(A[r][k], x[k])])]

\* The gcd of the real and imaginary parts of the entries of x.
RECURSIVE Content(_)
Content(x) ==
  IF x = <<>> THEN 0
  ELSE Gcd(Gcd(Abs(x[1][1]), Abs(x[1][2])), Content(Tail(x)))

VecDiv(x, g) == [k \in 1..Len(x) |-> <<x[k][1] \div g, x[k][2] \div g>>]

\* x as a multiple of a vector of coprime entries: the direction of x.
Primitive(x) == IF IsZeroVec(x) THEN x ELSE VecDiv(x, Content(x))

\* a * x - z * u for an integer a and a Gaussian integer z
AxMinusZu(a, x, z, u) ==
  [k \in 1..Len(x) |-> CSub(CScale(a, x[k]), CMul(z, u[k]))]

\* Basis columns
ZeroCol(m) == [nan |-> FALSE, u |-> ZeroVec(m)]
NaNCol(m) == [nan |-> TRUE, u |-> ZeroVec(m)]
UnitCol(x) == [nan |-> FALSE, u |-> Primitive(x)]
IsZeroCol(c) == ~c.nan /\ IsZeroVec(c.u)

\* b / np.linalg.norm(b): 0/0 is NaN in every entry
Normalised(b) == IF IsZeroVec(b) THEN NaNCol(Len(b)) ELSE UnitCol(b)

\* Scalars
ZeroNum == [nan |-> FALSE, z |-> CZero, p |-> 1, q |-> 1, d |-> 1]
NaNNum == [nan |-> TRUE, z |-> CZero, p |-> 1, q |-> 1, d |-> 1]
Num(z, p, q, d) ==
  IF z = CZero \/ p = 0 THEN ZeroNum
  ELSE [nan |-> FALSE, z |-> z, p |-> p, q |-> q, d |-> d]
IsZeroNum(h) == ~h.nan /\ h.z = CZero

\* The breakdown tolerance 1e-12 is 10^(-TolDigits).
TolDigits == 12

RECURSIVE Pow10(_)
Pow10(n) == IF n = 0 THEN 1 ELSE 10 * Pow10(n - 1)

\* h > 1e-12 for a norm h = sqrt(p / q) / d, that is p * 10^24 > q * d^2. A
\* comparison with NaN is false. With q and d below 10^8 the right side is
\* below 10^24, so every p >= 1 is greater; the model never leaves that range
\* (no value is chosen for a norm outside it).
GreaterThanTol(h) ==
  IF h.nan \/ h.z = CZero THEN FALSE
  ELSE IF h.q < Pow10((2 * TolDigits) \div 3) /\ h.d < Pow10((2 * TolDigits) \div 3)
    THEN TRUE
    ELSE CHOOSE undecided \in {} : TRUE

-----------------------------------------------------------------------------
(* misc.py: arnoldi *)

\* Column c (0-based) of the basis V.
Col(V, c) == V[c + 1]

\* The state of the vector w inside one outer step: w = x / (D * ||u||), u the
\* integer vector of the column V[:, j-1], or NaN; col collects the entries
\* H[0, j-1], H[1, j-1], ... written so far.
WStart(A, vprev) ==
  [nan |-> vprev.nan, x |-> MatVec(A, vprev.u), D |-> 1, col |-> <<>>]

\* Lines 180-181, for one i (the column vi = V[:, i-1]):
\*   H[i-1, j-1] = np.dot(V[:, i-1].conj(), w);  w = w - H[i-1, j-1]*V[:, i-1]
\* With vi = ui / sqrt(si): H = <ui, x> / (D * sqrt(si * sprev)) and
\* w - H*vi = (si * x - <ui, x> * ui) / (si * D * sqrt(sprev)).
ProjectOut(st, vi, sprev) ==
  IF st.nan \/ vi.nan
    THEN [st EXCEPT !.nan = TRUE, !.col = Append(@, NaNNum)]
  ELSE IF IsZeroVec(vi.u)
    THEN [st EXCEPT !.col = Append(@, ZeroNum)]
  ELSE LET si == NormSq(vi.u)
           z == DotConj(vi.u, st.x)
           x1 == AxMinusZu(si, st.x, z, vi.u)
           D1 == si * st.D
           g == Gcd(Content(x1), D1)
       IN [nan |-> FALSE,
           x |-> VecDiv(x1, g),
           D |-> D1 \div g,
           col |-> Append(st.col, Num(z, 1, si * sprev, st.D))]

\* Line 179: for i in range(1, j+1)
RECURSIVE Orthogonalise(_, _, _, _, _)
Orthogonalise(st, V, sprev, i, j) ==
  IF i > j THEN st
  ELSE Orthogonalise(ProjectOut(st, Col(V, i - 1), sprev), V, sprev, i + 1, j)

\* Line 184: np.linalg.norm(w, 2)
WNorm(st, sprev) ==
  IF st.nan THEN NaNNum ELSE Num(COne, NormSq(st.x), sprev, st.D)

\* Line 187: w / H[j, j-1]; a zero norm means w = 0, and 0/0 is NaN.
WOverNorm(st, hn) ==
  IF st.nan \/ hn.nan \/ IsZeroNum(hn) THEN NaNCol(Len(st.x)) ELSE UnitCol(st.x)

\* A removed early return: the loop goes on whatever the norm is.
Breakdown_NeverReturns(hn) == FALSE

\* Lines 186-189: the else branch, taken when H[j, j-1] > 1e-12 is false.
Breakdown(hn) == ~GreaterThanTol(hn)

\* An off-by-one slip: the new basis vector is stored over column j-1.
NextBasisColumn_Previous(j) == j - 1

\* Line 187: the column of V that step j fills.
NextBasisColumn(j) == j

\* Lines 170-174: the state arnoldi enters its loop with.
ArnoldiInit(A, b) ==
  LET m == Len(A)
  IN [V |-> [c \in 1..m |-> IF c = 1 THEN Normalised(b) ELSE ZeroCol(m)],
      H |-> [rc \in Cells(m, m) |-> ZeroNum],
      j |-> 1,
      status |-> "",
      writes |-> {[step |-> 0, arr |-> "V", row |-> 0, col |-> 0, val |-> Normalised(b)]}]

\* Lines 177-191: one pass j of the outer loop, up to the return that may end
\* it. writes adds the entries of H and the column of V assigned in the pass
\* (a column of V is logged whole, under row 0).
ArnoldiStep(A, a) ==
  LET m == Len(A)
      j == a.j
      vprev == Col(a.V, j - 1)
      sprev == NormSq(vprev.u)
      st == Orthogonalise(WStart(A, vprev), a.V, sprev, 1, j)
      H1 == [rc \in Cells(m, m) |->
               IF rc[2] = j - 1 /\ rc[1] <= j - 1 THEN st.col[rc[1] + 1] ELSE a.H[rc]]
      w1 == a.writes \cup
              {[step |-> j, arr |-> "H", row |-> r, col |-> j - 1, val |-> st.col[r + 1]] :
                 r \in 0..(j - 1)}
      hn == WNorm(st, sprev)
      H2 == [H1 EXCEPT ![<<j, j - 1>>] = hn]
      w2 == w1 \cup {[step |-> j, arr |-> "H", row |-> j, col |-> j - 1, val |-> hn]}
      c == NextBasisColumn(j)
  IN IF j = m
       THEN [V |-> a.V, H |-> H1, j |-> j, status |-> "full", writes |-> w1]
     ELSE IF Breakdown(hn)
       THEN [V |-> a.V, H |-> H2, j |-> j, status |-> "breakdown", writes |-> w2]
     ELSE [V |-> [a.V EXCEPT ![c + 1] = WOverNorm(st, hn)],
           H |-> H2,
           j |-> j + 1,
           status |-> "",
           writes |-> w2 \cup {[step |-> j, arr |-> "V", row |-> 0, col |-> c,
                               val |-> WOverNorm(st, hn)]}]

\* arnoldi(A, b), run to its return.
RECURSIVE ArnoldiLoop(_, _)
ArnoldiLoop(A, a) == IF a.status # "" THEN a ELSE ArnoldiLoop(A, ArnoldiStep(A, a))

arnoldi(A, b) == ArnoldiLoop(A, ArnoldiInit(A, b))

-----------------------------------------------------------------------------
(* misc.py: lanczos *)

\* A column W[:, c] is [nan, x, D]: the vector x / (D * ||u||), u the integer
\* vector of V[:, c], or NaN.
ZeroW(m) == [nan |-> FALSE, x |-> ZeroVec(m), D |-> 1]
NaNW(m) == [nan |-> TRUE, x |-> ZeroVec(m), D |-> 1]
IsZeroW(w) == ~w.nan /\ IsZeroVec(w.x)

\* x / D in lowest terms
ReducedW(x, D) ==
  LET g == Gcd(Content(x), D)
  IN [nan |-> FALSE, x |-> VecDiv(x, g), D |-> D \div g]

\* Lines 220, 227: alpha = np.dot(w_.conj(), v) for w_ = A @ v, v = u / ||u||
Alpha(A, v) ==
  IF v.nan THEN NaNNum
  ELSE Num(DotConj(MatVec(A, v.u), v.u), 1, 1, NormSq(v.u))

\* Lines 224: beta = np.linalg.norm(W[:, j-2]), with vprev = V[:, j-2]
Beta(w, vprev) ==
  IF w.nan \/ vprev.nan THEN NaNNum
  ELSE Num(COne, NormSq(w.x), NormSq(vprev.u), w.D)

\* Line 225: W[:, j-2] / beta[j-1]. beta is the norm of that column, so a zero
\* beta divides the zero vector by zero: NaN in every entry.
WOverBeta(w, beta) ==
  IF w.nan \/ beta.nan \/ IsZeroNum(beta) THEN NaNCol(Len(w.x)) ELSE UnitCol(w.x)

\* Line 221: W[:, 0] = w_ - alpha[0]*V[:, 0]
\*   = (s * A u - <A u, u> * u) / (s * ||u||), s = ||u||^2
Residual0(A, v) ==
  IF v.nan THEN NaNW(Len(A))
  ELSE LET s == NormSq(v.u)
           Au == MatVec(A, v.u)
       IN ReducedW(AxMinusZu(s, Au, DotConj(Au, v.u), v.u), s)

\* Line 228: W[:, j-1] = w_ - alpha[j-1]*V[:, j-1] - beta[j-1]*V[:, j-2] where
\* v = V[:, j-1] = u / ||u||, vprev = V[:, j-2] = up / ||up|| and
\* wprev = W[:, j-2] = g * u / (D * ||up||), so that beta = g * ||u|| / (D * ||up||):
\*   W[:, j-1] = (D*sp * (s * A u - <A u, u> * u) - g*s*s * up) / (s*D*sp * ||u||)
Residual(A, v, vprev, wprev) ==
  IF v.nan \/ vprev.nan \/ wprev.nan THEN NaNW(Len(A))
  ELSE LET s == NormSq(v.u)
           sp == NormSq(vprev.u)
           g == Content(wprev.x)
           Au == MatVec(A, v.u)
           t == AxMinusZu(s, Au, DotConj(Au, v.u), v.u)
       IN ReducedW(AxMinusZu(wprev.D * sp, t, <<g * s * s, 0>>, vprev.u),
                   s * wprev.D * sp)

\* Lines 211-221: the state lanczos enters its loop with.
LanczosInit(A, b) ==
  LET m == Len(A)
      v0 == Normalised(b)
  IN [V |-> [c \in 1..m |-> IF c = 1 THEN v0 ELSE ZeroCol(m)],
      alpha |-> [c \in 1..m |-> IF c = 1 THEN Alpha(A, v0) ELSE ZeroNum],
      beta |-> [c \in 1..m |-> ZeroNum],
      W |-> [c \in 1..m |-> IF c = 1 THEN Residual0(A, v0) ELSE ZeroW(m)],
      j |-> 2,
      divzero |-> {}]

\* A loop that stops one step short.
LanczosLastStep_Short(m) == m - 1

\* Line 223: for j in range(2, m+1): the last j the loop runs.
LanczosLastStep(m) == m

\* Lines 224-228: the pass j of the loop.
LanczosStep(A, l) ==
  LET j == l.j
      wprev == l.W[j - 1]
      vprev == l.V[j - 1]
      beta == Beta(wprev, vprev)
      v == WOverBeta(wprev, beta)
  IN [V |-> [l.V EXCEPT ![j] = v],
      alpha |-> [l.alpha EXCEPT ![j] = Alpha(A, v)],
      beta |-> [l.beta EXCEPT ![j] = beta],
      W |-> [l.W EXCEPT ![j] = Residual(A, v, vprev, wprev)],
      j |-> j + 1,
      divzero |-> IF IsZeroNum(beta) THEN l.divzero \cup {j} ELSE l.divzero]

\* Line 230: np.diagflat(alpha) + np.diagflat(beta[1:], 1) + np.diagflat(beta[1:], -1)
Tridiagonal(alpha, beta) ==
  LET m == Len(alpha)
  IN [rc \in Cells(m, m) |->
        IF rc[1] = rc[2] THEN alpha[rc[1] + 1]
        ELSE IF rc[1] = rc[2] + 1 THEN beta[rc[1] + 1]
        ELSE IF rc[2] = rc[1] + 1 THEN beta[rc[2] + 1]
        ELSE ZeroNum]

-----------------------------------------------------------------------------
(* misc.py: krylov_expm and the calls of the builders *)

MaxDim == 3       \* A is m x m for m in 1..MaxDim

\* A symmetry test that forgets the conjugate.
IsHermitianExact_NoConj(A) ==
  \A r \in 1..Len(A) : \A c \in 1..Len(A) : A[c][r] = A[r][c]

\* Line 281: np.array_equal(A.conj().T, A)
IsHermitianExact(A) ==
  \A r \in 1..Len(A) : \A c \in 1..Len(A) : CConj(A[c][r]) = A[r][c]

\* The matrices explored: a 0/1 diagonal, to whose first entry 0 or i is
\* added, plus one pair of entries A[p, p+1], A[p+1, p] next to the diagonal.
DiagVals == {0, 1}
CornerVals == {<<0, 0>>, <<0, 1>>}
OffVals == {<<0, 0>>, <<1, 0>>, <<0, 1>>, <<0, -1>>}

AFamily(m) ==
  {[r \in 1..m |-> [c \in 1..m |->
       IF r = c THEN (IF r = 1 THEN CAdd(<<d[r], 0>>, e) ELSE <<d[r], 0>>)
       ELSE IF r = p /\ c = p + 1 THEN xy[1]
       ELSE IF r = p + 1 /\ c = p THEN xy[2]
       ELSE CZero]] :
     d \in [1..m -> DiagVals],
     e \in CornerVals,
     p \in 1..(IF m = 1 THEN 1 ELSE m - 1),
     xy \in OffVals \X OffVals}

\* The vectors explored: zero, e1, all ones, and (1, i, 0, ...).
BFamily(m) ==
  {ZeroVec(m),
   [k \in 1..m |-> IF k = 1 THEN COne ELSE CZero],
   [k \in 1..m |-> COne],
   [k \in 1..m |-> IF k = 1 THEN COne ELSE IF k = 2 THEN <<0, 1>> ELSE CZero]}

InitK ==
  /\ kEntry \in {"krylov_expm", "arnoldi", "lanczos"}
  /\ \E m \in 1..MaxDim : kA \in AFamily(m) /\ kB \in BFamily(m)
  \* lanczos' documented precondition: callers hand it a Hermitian A
  /\ kEntry = "lanczos" => IsHermitianExact(kA)
  /\ kPc = "call"
  /\ kJ = 0
  /\ kV = <<>> /\ kH = <<>> /\ kAlpha = <<>> /\ kBeta = <<>> /\ kW = <<>>
  /\ kStatus = ""
  /\ kWrites = {}
  /\ kDivZero = {}
  /\ kCalls = [arnoldi |-> 0, lanczos |-> 0]
  /\ kRet = NoRet

\* The call arnoldi(A, b) up to the loop.
EnterArnoldi ==
  LET a == ArnoldiInit(kA, kB)
  IN /\ kPc' = "arnoldi"
     /\ kV' = a.V /\ kH' = a.H /\ kJ' = a.j /\ kWrites' = a.writes
     /\ UNCHANGED <<kAlpha, kBeta, kW, kDivZero, kStatus, kRet>>

\* The call lanczos(A, b) up to the loop.
EnterLanczos ==
  LET l == LanczosInit(kA, kB)
  IN /\ kPc' = "lanczos"
     /\ kV' = l.V /\ kAlpha' = l.alpha /\ kBeta' = l.beta /\ kW' = l.W /\ kJ' = l.j
     /\ kDivZero' = l.divzero
     /\ UNCHANGED <<kH, kWrites, kStatus, kRet>>

\* Lines 281-284 of krylov_expm: the test and the call it selects.
KrylovDispatch ==
  /\ kPc = "call" /\ kEntry = "krylov_expm"
  /\ IF IsHermitianExact(kA)
       THEN EnterLanczos /\ kCalls' = [kCalls EXCEPT !.lanczos = @ + 1]
       ELSE EnterArnoldi /\ kCalls' = [kCalls EXCEPT !.arnoldi = @ + 1]
  /\ UNCHANGED <<kEntry, kA, kB>>
  /\ UNCHANGED <<uvars, pvars>>

\* A caller calls arnoldi itself.
CallArnoldi ==
  /\ kPc = "call" /\ kEntry = "arnoldi"
  /\ EnterArnoldi
  /\ UNCHANGED <<kEntry, kA, kB, kCalls>>
  /\ UNCHANGED <<uvars, pvars>>

\* A caller calls lanczos itself.
CallLanczos ==
  /\ kPc = "call" /\ kEntry = "lanczos"
  /\ EnterLanczos
  /\ UNCHANGED <<kEntry, kA, kB, kCalls>>
  /\ UNCHANGED <<uvars, pvars>>

\* Where a builder returns to.
AfterBuilder == IF kEntry = "krylov_expm" THEN "built" ELSE "done"

\* One pass of arnoldi's outer loop, with the return at line 189 or 191.
ArnoldiIter ==
  /\ kPc = "arnoldi"
  /\ LET a == ArnoldiStep(kA, [V |-> kV, H |-> kH, j |-> kJ, status |-> "",
                               writes |-> kWrites])
     IN /\ kV' = a.V /\ kH' = a.H /\ kJ' = a.j /\ kWrites' = a.writes
        /\ kStatus' = a.status
        /\ IF a.status # ""
             THEN kPc' = AfterBuilder /\
                  kRet' = IF kEntry = "arnoldi" THEN [kind |-> "V, H"] ELSE kRet
             ELSE UNCHANGED <<kPc, kRet>>
  /\ UNCHANGED <<kEntry, kA, kB, kAlpha, kBeta, kW, kDivZero, kCalls>>
  /\ UNCHANGED <<uvars, pvars>>

\* One pass of lanczos' loop.
LanczosIter ==
  /\ kPc = "lanczos"
  /\ kJ <= LanczosLastStep(Len(kA))
  /\ LET l == LanczosStep(kA, [V |-> kV, alpha |-> kAlpha, beta |-> kBeta, W |-> kW,
                               j |-> kJ, divzero |-> kDivZero])
     IN /\ kV' = l.V /\ kAlpha' = l.alpha /\ kBeta' = l.beta /\ kW' = l.W
        /\ kJ' = l.j /\ kDivZero' = l.divzero
  /\ UNCHANGED <<kEntry, kA, kB, kPc, kH, kStatus, kWrites, kCalls, kRet>>
  /\ UNCHANGED <<uvars, pvars>>

\* Line 230: lanczos returns V and T when its loop has run out.
LanczosReturn ==
  /\ kPc = "lanczos"
  /\ kJ > LanczosLastStep(Len(kA))
  /\ kH' = Tridiagonal(kAlpha, kBeta)
  /\ kStatus' = "full"
  /\ kPc' = AfterBuilder
  /\ kRet' = IF kEntry = "lanczos" THEN [kind |-> "V, T"] ELSE kRet
  /\ UNCHANGED <<kEntry, kA, kB, kJ, kV, kAlpha, kBeta, kW, kWrites, kDivZero, kCalls>>
  /\ UNCHANGED <<uvars, pvars>>

\* Line 286: np.linalg.norm(b) * V @ sp.linalg.expm(H) @ e1. The exponential
\* of the projected matrix is not evaluated: the result names its operands.
KrylovReturn ==
  /\ kPc = "built"
  /\ kRet' = [kind |-> "norm(b) * V @ expm(H) @ e1", normSq |-> NormSq(kB)]
  /\ kPc' = "done"
  /\ UNCHANGED <<kEntry, kA, kB, kJ, kV, kH, kAlpha, kBeta, kW, kStatus, kWrites,
                 kDivZero, kCalls>>
  /\ UNCHANGED <<uvars, pvars>>

NextK ==
  \/ KrylovDispatch \/ CallArnoldi \/ CallLanczos
  \/ ArnoldiIter \/ LanczosIter \/ LanczosReturn \/ KrylovReturn

InitKrylov == InitK /\ UIdle /\ PIdle

SpecKrylov == InitKrylov /\ [][NextK]_vars

-----------------------------------------------------------------------------
(* Properties of vec / unvec, checked under SpecUnvec *)

\* C1: for every r x k matrix M (r, k >= 1), unvec(vec(M)) called with no
\* column argument returns a matrix with the same shape and entries as M.
C1_RoundTrip ==
  (uPc = "done" /\ uIn.kind = "matrix" /\ ~uC.given)
    => (uRet.kind = "matrix" /\ uRet.mat = uIn.mat)

\* The inputs on which the claim says unvec signals the shape error.
ClaimedShapeError(n, c) ==
  \/ n % 2 # 0 /\ n # 1
  \/ n % 2 = 0 /\ ~c.given /\ ~IsPerfectSquare(n)
  \/ c.given /\ c.val # 0 /\ ~DividesEvenly(n, c.val)

\* C2: unvec prints a diagnostic and returns None exactly on the inputs of
\* ClaimedShapeError; on every other input, the empty vector and c = 0
\* included, it returns an array and raises nothing.
C2_ShapeErrorExactly ==
  uPc = "done" =>
    IF ClaimedShapeError(Len(uVec), uC)
      THEN uRet.kind = None /\ uPrinted # ""
      ELSE uRet.kind \in {"matrix", "vector"} /\ uPrinted = ""

\* C3: for an even-length v and a column count c >= 1 dividing len(v), unvec
\* returns a matrix of len(v)/c rows and c columns whose entry at row i,
\* column k is v[k*(len(v)/c) + i].
C3_ColumnCountShape ==
  (/\ uPc = "done"
   /\ Len(uVec) % 2 = 0
   /\ uC.given /\ uC.val >= 1 /\ Len(uVec) % uC.val = 0)
    => LET rows == Len(uVec) \div uC.val
       IN /\ uRet.kind = "matrix"
          /\ uRet.mat = Matrix(rows, uC.val,
                                [ik \in Cells(rows, uC.val) |-> uVec[ik[2] * rows + ik[1] + 1]])

-----------------------------------------------------------------------------
(* Properties of pre_integrate, checked under SpecPre *)

\* The call the claim C4 is about: a known method, a grid of k+1 >= 2 points
\* and one triple per interval.
C4_Call ==
  /\ pMethod \in {"scipy", "me"}
  /\ Len(pTlist) >= 2
  /\ pHlen = Len(pTlist) - 1

\* val0 of the entry for the interval [a, b] of triple i
C4_Val0(v, i, a, b) ==
  IF pMethod = "me" THEN v = HCoeff(i).f * (b - a)
                    ELSE v.integral = HCoeff(i).f * (b - a)

\* C4: on such a call pre_integrate raises nothing, never subscripts tlist
\* past its last element, and returns exactly k entries, the i-th computed
\* over [tlist[i], tlist[i+1]].
C4_OneEntryPerInterval ==
  C4_Call =>
    /\ \A r \in pReads : r < Len(pTlist)
    /\ pRet.kind # "raise"
    /\ pPc = "done" =>
         /\ pRet.kind = "list"
         /\ Len(pRet.val) = Len(pTlist) - 1
         /\ \A i \in 1..Len(pRet.val) :
              C4_Val0(pRet.val[i].val0, i - 1, pTlist[i], pTlist[i + 1])

\* C5: for a method other than "scipy" and "me", pre_integrate prints the
\* diagnostic, raises nothing, starts no integration, subscripts tlist
\* nowhere, and returns the integer 0, whatever H_coeff and tlist are.
C5_UnknownMethodSentinel ==
  (pPc # "idle" /\ pMethod \notin {"scipy", "me"}) =>
    /\ pEvals = 0
    /\ pReads = {}
    /\ pIntegrals = <<>>
    /\ pPc \in {"start", "done"}
    /\ pPc = "done" => (pRet = [kind |-> "int", val |-> 0] /\ pPrinted = ErrMethod)
    /\ pPc = "start" => (pRet = NoRet /\ pPrinted = "")

\* An unknown method has returned, on a call with a grid and coefficients.
C5_Witness ==
  /\ pPc = "done"
  /\ pMethod = "bogus"
  /\ pRet = [kind |-> "int", val |-> 0]
  /\ Len(pTlist) >= 2
  /\ pHlen >= 1

-----------------------------------------------------------------------------
(* Properties of krylov_expm, arnoldi and lanczos, checked under SpecKrylov *)

\* The builder that is running or has run.
ArnoldiRan == kPc # "call" /\ (kEntry = "arnoldi" \/ kCalls.arnoldi > 0)
LanczosRan == kPc # "call" /\ (kEntry = "lanczos" \/ kCalls.lanczos > 0)

\* A equals its conjugate transpose, entry for entry.
C6_EqualsConjugateTranspose ==
  \A r \in 1..Len(kA) : \A c \in 1..Len(kA) :
    kA[r][c][1] = kA[c][r][1] /\ kA[r][c][2] = -kA[c][r][2]

\* C6: krylov_expm calls lanczos, once, and never arnoldi when A equals its
\* conjugate transpose entry for entry, and arnoldi, once, and never lanczos
\* when A differs from it in any entry.
C6_DispatchByExactEquality ==
  kEntry = "krylov_expm" =>
    IF kPc = "call" THEN kCalls = [arnoldi |-> 0, lanczos |-> 0]
    ELSE IF C6_EqualsConjugateTranspose
      THEN kCalls = [arnoldi |-> 0, lanczos |-> 1] /\ kPc \in {"lanczos", "built", "done"}
      ELSE kCalls = [arnoldi |-> 1, lanczos |-> 0] /\ kPc \in {"arnoldi", "built", "done"}

\* krylov_expm has returned for a symmetric matrix with an imaginary
\* off-diagonal pair: it differs from its conjugate transpose in two entries
\* only, and was routed to arnoldi.
C6_Witness ==
  /\ kEntry = "krylov_expm" /\ kPc = "done"
  /\ Len(kA) = 2
  /\ kA[1][2] = <<0, 1>> /\ kA[2][1] = <<0, 1>>
  /\ kA[1][1] = <<1, 0>> /\ kA[2][2] = <<1, 0>>
  /\ kCalls = [arnoldi |-> 1, lanczos |-> 0]

\* The residual norm H[j, j-1] that step j of arnoldi stored.
C7_Residual(j) == kH[<<j, j - 1>>]

\* The steps arnoldi has run.
C7_Steps == {w.step : w \in kWrites} \ {0}

\* Every logged assignment is still what the array holds.
C7_HoldsWhatWasWritten ==
  \A w \in kWrites :
    IF w.arr = "H" THEN kH[<<w.row, w.col>>] = w.val ELSE Col(kV, w.col) = w.val

\* C7: arnoldi on an m x m matrix ends after at most m outer steps, at full
\* order after step m or at the first step j < m whose residual norm is not
\* greater than 1e-12; at breakdown at step j no later step has run, columns
\* j..m-1 of V and of H are zero and columns 0..j-1 hold what steps 1..j wrote.
C7_TerminatesAtOrderOrBreakdown ==
  ArnoldiRan =>
    LET m == Len(kA)
    IN /\ C7_Steps \subseteq 1..m
       /\ kPc = "arnoldi" =>
            /\ kStatus = "" /\ kJ \in 1..m
            /\ C7_Steps = 1..(kJ - 1)
            /\ \A j \in 1..(kJ - 1) : GreaterThanTol(C7_Residual(j))
       /\ kPc # "arnoldi" =>
            /\ kStatus \in {"full", "breakdown"}
            /\ C7_Steps = 1..kJ
            /\ \A j \in 1..(kJ - 1) : GreaterThanTol(C7_Residual(j))
            /\ kStatus = "full" => kJ = m
            /\ kStatus = "breakdown" =>
                 /\ kJ < m
                 /\ ~GreaterThanTol(C7_Residual(kJ))
                 /\ \A c \in kJ..(m - 1) : IsZeroCol(Col(kV, c))
                 /\ \A c \in kJ..(m - 1) : \A r \in 0..(m - 1) : IsZeroNum(kH[<<r, c>>])
                 /\ \A c \in 0..(kJ - 1) :
                      /\ \E w \in kWrites : w.arr = "V" /\ w.col = c
                      /\ \E w \in kWrites : w.arr = "H" /\ w.col = c
                 /\ C7_HoldsWhatWasWritten

\* arnoldi has returned at breakdown at step 2 of a 3 x 3 matrix: two basis
\* columns filled, the third left zero.
C7_Witness ==
  /\ ArnoldiRan /\ kPc = "done"
  /\ Len(kA) = 3
  /\ kStatus = "breakdown" /\ kJ = 2
  /\ ~IsZeroCol(Col(kV, 1)) /\ ~Col(kV, 1).nan
  /\ IsZeroCol(Col(kV, 2))

\* C9: at every step of arnoldi and in what it returns, H is m x m with zeros
\* below the first subdiagonal; step j assigns only column j-1 of H (rows
\* 0..j-1, and row j when j < m) and only column j of V, and no step assigns a
\* column that an earlier step assigned.
C9_UpperHessenbergColumnwise ==
  ArnoldiRan =>
    LET m == Len(kA)
        done == IF kPc = "arnoldi" THEN 1..(kJ - 1) ELSE 1..kJ
    IN /\ DOMAIN kH = Cells(m, m)
       /\ \A rc \in Cells(m, m) : rc[1] > rc[2] + 1 => IsZeroNum(kH[rc])
       /\ \A w \in kWrites :
            /\ w.arr = "H" =>
                 /\ w.step \in 1..m
                 /\ w.col = w.step - 1
                 /\ w.row \in 0..w.step
                 /\ w.row = w.step => w.step < m
            /\ w.arr = "V" => w.col = w.step /\ w.col \in 0..(m - 1)
       /\ \A w1 \in kWrites : \A w2 \in kWrites :
            (w1.arr = w2.arr /\ w1.col = w2.col) => w1.step = w2.step
       /\ \A j \in done :
            {w.row : w \in {x \in kWrites : x.arr = "H" /\ x.step = j}}
              = (0..(j - 1)) \cup (IF j < m THEN {j} ELSE {})

\* arnoldi has returned at full order for a 3 x 3 matrix: the subdiagonal of H
\* is nonzero, the entry H[2, 0] below it is zero, and all three columns of V
\* are filled.
C9_Witness ==
  /\ ArnoldiRan /\ kPc = "done"
  /\ Len(kA) = 3
  /\ kStatus = "full"
  /\ ~IsZeroNum(kH[<<1, 0>>]) /\ ~IsZeroNum(kH[<<2, 1>>])
  /\ ~IsZeroNum(kH[<<0, 2>>])
  /\ IsZeroNum(kH[<<2, 0>>])
  /\ \A c \in 0..2 : ~IsZeroCol(Col(kV, c))

\* The lanczos steps j run so far whose residual W[:, j-2] was the zero vector.
C10_ZeroResidualSteps == {j \in 2..(kJ - 1) : IsZeroW(kW[j - 1])}

\* C10: lanczos has no breakdown return: it runs every step j = 2..m whatever
\* beta is; at a step whose residual W[:, j-2] is the zero vector beta[j-1] is
\* 0 and V[:, j-1] is formed by a division by zero, where arnoldi on the same
\* input returns early at breakdown.
C10_NoBreakdownInLanczos ==
  LanczosRan =>
    LET m == Len(kA)
    IN /\ kPc = "lanczos" => kJ \in 2..(m + 1) /\ kStatus = ""
       /\ kPc # "lanczos" => kJ = (IF m = 1 THEN 2 ELSE m + 1) /\ kStatus = "full"
       /\ \A j \in C10_ZeroResidualSteps :
            /\ IsZeroNum(kBeta[j])
            /\ j \in kDivZero
            /\ kV[j].nan
       /\ kDivZero \subseteq C10_ZeroResidualSteps
       /\ C10_ZeroResidualSteps # {} => arnoldi(kA, kB).status = "breakdown"

\* lanczos has returned for a 3 x 3 Hermitian matrix and an eigenvector b: the
\* residual was zero at step 2, which divided by zero, and step 3 still ran.
C10_Witness ==
  /\ LanczosRan /\ kPc = "done"
  /\ Len(kA) = 3
  /\ kB # ZeroVec(3)
  /\ kDivZero = {2}
  /\ kJ = 4
  /\ kV[2].nan /\ kV[3].nan
  /\ arnoldi(kA, kB).status = "breakdown" /\ arnoldi(kA, kB).j = 1

====
